---------------------------- MODULE Spec2Model ----------------------------
(***************************************************************************)
(* Model of the membership query tool of freeipa-manager                   *)
(* (ipamanager/tools/query_tool.py): the session state of a QueryTool     *)
(* (graph, predecessors, paths), the recursive graph builder build_graph, *)
(* the backward path search _construct_path, check_membership and the     *)
(* orchestrator _query_membership.                                         *)
(*                                                                         *)
(* An entity object is modelled by its identity <<type, name>>.  The       *)
(* entity store is the pair (entities, memberOf): entities is the dict of  *)
(* dicts find_entity looks into (type -> names present), memberOf gives    *)
(* each entity the references of its data_repo['memberOf'] in the order    *)
(* the two nested for-loops of build_graph visit them.                     *)
(*                                                                         *)
(* Spec, SpecAny and SpecQuery run each call on the tool as one step, the  *)
(* call being computed by the operator named after it.  SpecMain runs main *)
(* on command-line strings.  SpecSteps runs check_membership statement by  *)
(* statement, for the claims about the course of a call.                   *)
(***************************************************************************)
EXTENDS Integers, Sequences, FiniteSets, TLC

VARIABLES entities, memberOf, graph, predecessors, paths, nsearch, last, nreq,
          ran, run

vars == <<entities, memberOf, graph, predecessors, paths, nsearch, last, nreq,
          ran, run>>

store == <<entities, memberOf>>

-----------------------------------------------------------------------------
(* Bounds of the model *)

\* longest member-of list of an entity
MaxMemberOf == 2
\* number of top-level calls made in one session
MaxRequests == 2
\* longest members / targets list handed to _query_membership
MaxList == 2
\* depth at which the interpreter stops a recursion (RuntimeError)
RecursionLimit == 6
\* number of queue pops after which a backward search is declared endless
MaxSearch == 16
MaxPieces == 3

-----------------------------------------------------------------------------
(* Entities *)

U1 == <<"user", "u1">>
G1 == <<"group", "g1">>
G2 == <<"group", "g2">>
G3 == <<"group", "g3">>
\* a reference of a type the store has no dict for
Ghost == <<"role", "r1">>

\* Python's None, what find_entity returns for an absent entity
None == <<"none", "None">>

EntityOrder == <<U1, G1, G2, G3>>

\* the entity objects held by an entity dict
Objects(dict) == UNION {{<<t, n>> : n \in dict[t]} : t \in DOMAIN dict}

FullDict == [t \in {"user", "group"} |->
               IF t = "user" THEN {"u1"} ELSE {"g1", "g2", "g3"}]

\* the store of the unrestricted specification lacks group g3
SmallDict == [t \in {"user", "group"} |->
               IF t = "user" THEN {"u1"} ELSE {"g1", "g2"}]

-----------------------------------------------------------------------------
(* Helpers: dict.get, dict assignment, duplicate-free sequences *)

Get(f, k, d) == IF k \in DOMAIN f THEN f[k] ELSE d

Put(f, k, v) == [x \in (DOMAIN f) \cup {k} |-> IF x = k THEN v ELSE f[x]]

Range(s) == {s[i] : i \in DOMAIN s}

NoDup(s) == \A i, j \in DOMAIN s : i # j => s[i] # s[j]

SeqsUpTo(S, n) == UNION {[1..k -> S] : k \in 0..n}

NoDupSeqs(S, n) == {s \in SeqsUpTo(S, n) : NoDup(s)}

Min(a, b) == IF a < b THEN a ELSE b

-----------------------------------------------------------------------------
(* utils.find_entity *)

find_entity(entity_dict, entity_type, name) ==
    IF entity_type \in DOMAIN entity_dict /\ name \in entity_dict[entity_type]
    THEN <<entity_type, name>>
    ELSE None

-----------------------------------------------------------------------------
(* The session state threaded through one top-level call *)

Session == [graph |-> graph, predecessors |-> predecessors, paths |-> paths,
            nsearch |-> nsearch, log |-> <<>>, queue |-> <<>>]

\* lines 37-39: the session of a tool on which no call was made
FreshSession == [graph |-> <<>>, predecessors |-> <<>>, paths |-> <<>>,
                 nsearch |-> <<>>, log |-> <<>>, queue |-> <<>>]

Log(st, event) == [st EXCEPT !.log = Append(@, event)]

NoError == <<>>

-----------------------------------------------------------------------------
(* QueryTool.build_graph *)

\* the value of F at v, with v evaluated once: the result of a call, bound
\* to the name under which the lines after the call use it
Bind(v, F(_)) == CHOOSE out \in {F(x) : x \in {v}} : TRUE

RECURSIVE build_graph(_, _, _)
RECURSIVE build_graph_nomemo(_, _, _)
RECURSIVE build_graph_memo_big(_, _, _)
RECURSIVE build_graph_loop(_, _, _, _, _, _)

RECURSIVE build_graph_loop_noupdate(_, _, _, _, _, _)

\* build_graph_loop without line 80's result.update: the targets of a target
\* are walked but not folded into the result
build_graph_loop_noupdate(entity, i, result, aliased, st, depth) ==
    IF i > Len(memberOf[entity])
    THEN [st |-> st, ret |-> result, err |-> NoError]
    ELSE LET ref == memberOf[entity][i]
             target_entity == find_entity(entities, ref[1], ref[2])
             r1 == result \cup {target_entity}
             st1 == [st EXCEPT
                       !.graph = IF aliased THEN Put(@, entity, r1) ELSE @,
                       !.predecessors =
                           Put(@, target_entity,
                               Append(Get(@, target_entity, <<>>), entity))]
             after(sub) ==
                 IF sub.err # NoError
                 THEN [st |-> sub.st, ret |-> r1, err |-> sub.err]
                 ELSE build_graph_loop_noupdate(entity, i + 1, r1, aliased,
                                                sub.st, depth)
         IN  Bind(build_graph(target_entity, st1, depth + 1), after)

RECURSIVE build_graph_loop_first_pred(_, _, _, _, _, _)

\* build_graph_loop without line 76's append: only the first entity found to
\* declare a target is recorded as its predecessor
build_graph_loop_first_pred(entity, i, result, aliased, st, depth) ==
    IF i > Len(memberOf[entity])
    THEN [st |-> st, ret |-> result, err |-> NoError]
    ELSE LET ref == memberOf[entity][i]
             target_entity == find_entity(entities, ref[1], ref[2])
             r1 == result \cup {target_entity}
             st1 == [st EXCEPT
                       !.graph = IF aliased THEN Put(@, entity, r1) ELSE @,
                       !.predecessors =
                           IF target_entity \in DOMAIN @
                           THEN @
                           ELSE Put(@, target_entity, <<entity>>)]
             after(sub) ==
                 IF sub.err # NoError
                 THEN [st |-> sub.st, ret |-> r1, err |-> sub.err]
                 ELSE build_graph_loop_first_pred(entity, i + 1,
                         r1 \cup sub.ret, aliased,
                         [sub.st EXCEPT !.graph =
                              IF aliased
                              THEN Put(@, entity, r1 \cup sub.ret) ELSE @],
                         depth)
         IN  Bind(build_graph(target_entity, st1, depth + 1), after)

RECURSIVE build_graph_loop_unseen_pred(_, _, _, _, _, _)

\* build_graph_loop recording the edge only to a target that has no entry
\* in self.graph yet
build_graph_loop_unseen_pred(entity, i, result, aliased, st, depth) ==
    IF i > Len(memberOf[entity])
    THEN [st |-> st, ret |-> result, err |-> NoError]
    ELSE LET ref == memberOf[entity][i]
             target_entity == find_entity(entities, ref[1], ref[2])
             r1 == result \cup {target_entity}
             st1 == [st EXCEPT
                       !.graph = IF aliased THEN Put(@, entity, r1) ELSE @,
                       !.predecessors =
                           IF target_entity \in DOMAIN st.graph
                           THEN @
                           ELSE Put(@, target_entity,
                                    Append(Get(@, target_entity, <<>>),
                                           entity))]
             after(sub) ==
                 IF sub.err # NoError
                 THEN [st |-> sub.st, ret |-> r1, err |-> sub.err]
                 ELSE build_graph_loop_unseen_pred(entity, i + 1,
                         r1 \cup sub.ret, aliased,
                         [sub.st EXCEPT !.graph =
                              IF aliased
                              THEN Put(@, entity, r1 \cup sub.ret) ELSE @],
                         depth)
         IN  Bind(build_graph(target_entity, st1, depth + 1), after)

\* lines 72-80: the two nested for-loops, from the i-th reference on.
\* result is the set object of line 66; aliased says that it is the very
\* object stored in self.graph[entity], which the loop then mutates in place.
build_graph_loop(entity, i, result, aliased, st, depth) ==
    IF i > Len(memberOf[entity])
    THEN [st |-> st, ret |-> result, err |-> NoError]
    ELSE LET ref == memberOf[entity][i]
             target_entity == find_entity(entities, ref[1], ref[2])
             r1 == result \cup {target_entity}
             st1 == [st EXCEPT
                       !.graph = IF aliased THEN Put(@, entity, r1) ELSE @,
                       !.predecessors =
                           Put(@, target_entity,
                               Append(Get(@, target_entity, <<>>), entity))]
             after(sub) ==
                 IF sub.err # NoError
                 THEN [st |-> sub.st, ret |-> r1, err |-> sub.err]
                 ELSE build_graph_loop(entity, i + 1, r1 \cup sub.ret,
                         aliased,
                         [sub.st EXCEPT !.graph =
                              IF aliased
                              THEN Put(@, entity, r1 \cup sub.ret) ELSE @],
                         depth)
         IN  Bind(build_graph(target_entity, st1, depth + 1), after)

\* build_graph without the memo test of lines 66-69: every call walks the
\* member-of relation again
build_graph_nomemo(entity, st, depth) ==
    IF depth > RecursionLimit
    THEN [st |-> st, ret |-> {}, err |-> <<"RuntimeError">>]
    ELSE IF entity = None
    THEN [st |-> Log(st, <<"Calculating", entity>>), ret |-> {},
          err |-> <<"AttributeError">>]
    ELSE LET after(w) ==
                 IF w.err # NoError
                 THEN w
                 ELSE [st |-> [Log(w.st, <<"Found", Cardinality(w.ret),
                                           entity>>)
                               EXCEPT !.graph = Put(@, entity, w.ret)],
                       ret |-> w.ret, err |-> NoError]
         IN  Bind(build_graph_loop(entity, 1, Get(st.graph, entity, {}),
                                   entity \in DOMAIN st.graph,
                                   Log(st, <<"Calculating", entity>>), depth),
                  after)

\* build_graph taking the memo hit only for a stored set of two entities or
\* more (len(result) > 1): an entity with one target is walked again
build_graph_memo_big(entity, st, depth) ==
    IF depth > RecursionLimit
    THEN [st |-> st, ret |-> {}, err |-> <<"RuntimeError">>]
    ELSE IF Cardinality(Get(st.graph, entity, {})) > 1
    THEN [st |-> Log(st, <<"AlreadyCalculated", entity>>),
          ret |-> st.graph[entity], err |-> NoError]
    ELSE IF entity = None
    THEN [st |-> Log(st, <<"Calculating", entity>>), ret |-> {},
          err |-> <<"AttributeError">>]
    ELSE LET after(w) ==
                 IF w.err # NoError
                 THEN w
                 ELSE [st |-> [Log(w.st, <<"Found", Cardinality(w.ret),
                                           entity>>)
                               EXCEPT !.graph = Put(@, entity, w.ret)],
                       ret |-> w.ret, err |-> NoError]
         IN  Bind(build_graph_loop(entity, 1, Get(st.graph, entity, {}),
                                   entity \in DOMAIN st.graph,
                                   Log(st, <<"Calculating", entity>>), depth),
                  after)

build_graph(entity, st, depth) ==
    IF depth > RecursionLimit
    THEN [st |-> st, ret |-> {}, err |-> <<"RuntimeError">>]
    ELSE IF Get(st.graph, entity, {}) # {}
    THEN [st |-> Log(st, <<"AlreadyCalculated", entity>>),
          ret |-> st.graph[entity], err |-> NoError]
    ELSE IF entity = None
    THEN [st |-> Log(st, <<"Calculating", entity>>), ret |-> {},
          err |-> <<"AttributeError">>]
    ELSE LET after(w) ==
                 IF w.err # NoError
                 THEN w
                 ELSE [st |-> [Log(w.st, <<"Found", Cardinality(w.ret),
                                           entity>>)
                               EXCEPT !.graph = Put(@, entity, w.ret)],
                       ret |-> w.ret, err |-> NoError]
         IN  Bind(build_graph_loop(entity, 1, Get(st.graph, entity, {}),
                                   entity \in DOMAIN st.graph,
                                   Log(st, <<"Calculating", entity>>), depth),
                  after)

-----------------------------------------------------------------------------
(* QueryTool._construct_path *)

RECURSIVE construct_path_preds(_, _, _, _, _, _)
RECURSIVE construct_path_loop(_, _, _, _, _)

RECURSIVE construct_path_preds_direct(_, _, _, _, _, _)

\* construct_path_preds without line 118: a predecessor that is not the
\* member is dropped instead of being queued for further extension
construct_path_preds_direct(preds, i, current, member, queue, found) ==
    IF i > Len(preds)
    THEN [queue |-> queue, paths |-> found]
    ELSE IF preds[i] = member
    THEN construct_path_preds_direct(preds, i + 1, current, member, queue,
                                     Append(found, <<preds[i]>> \o current))
    ELSE construct_path_preds_direct(preds, i + 1, current, member, queue,
                                     found)

\* lines 113-118: the for-loop over the predecessors of current[0]
construct_path_preds(preds, i, current, member, queue, found) ==
    IF i > Len(preds)
    THEN [queue |-> queue, paths |-> found]
    ELSE IF preds[i] = member
    THEN construct_path_preds(preds, i + 1, current, member, queue,
                              Append(found, <<preds[i]>> \o current))
    ELSE construct_path_preds(preds, i + 1, current, member,
                              Append(queue, <<preds[i]>> \o current), found)

RECURSIVE construct_path_loop_shortest(_, _, _, _, _)

\* construct_path_loop leaving the while-loop as soon as a path was found
construct_path_loop_shortest(queue, found, member, preds_index, fuel) ==
    IF queue = <<>> \/ found # <<>>
    THEN [paths |-> found, endless |-> FALSE, queue |-> queue]
    ELSE IF fuel = 0
    THEN [paths |-> found, endless |-> TRUE, queue |-> queue]
    ELSE LET after(ext) ==
                 construct_path_loop_shortest(ext.queue, ext.paths, member,
                                              preds_index, fuel - 1)
         IN  Bind(construct_path_preds(Get(preds_index, Head(queue)[1], <<>>),
                                       1, Head(queue), member, Tail(queue),
                                       found),
                  after)

RECURSIVE construct_path_loop_stack(_, _, _, _, _)

\* construct_path_loop taking current from the right end of the queue
\* (queue.pop() instead of queue.popleft())
construct_path_loop_stack(queue, found, member, preds_index, fuel) ==
    IF queue = <<>>
    THEN [paths |-> found, endless |-> FALSE, queue |-> queue]
    ELSE IF fuel = 0
    THEN [paths |-> found, endless |-> TRUE, queue |-> queue]
    ELSE LET after(ext) ==
                 construct_path_loop_stack(ext.queue, ext.paths, member,
                                           preds_index, fuel - 1)
         IN  Bind(construct_path_preds(
                      Get(preds_index, queue[Len(queue)][1], <<>>), 1,
                      queue[Len(queue)], member,
                      SubSeq(queue, 1, Len(queue) - 1), found),
                  after)

\* lines 110-118: the while-loop over the queue, current being its head.  A
\* search that is still running after fuel pops is reported as endless, with
\* the queue it had reached.
construct_path_loop(queue, found, member, preds_index, fuel) ==
    IF queue = <<>>
    THEN [paths |-> found, endless |-> FALSE, queue |-> queue]
    ELSE IF fuel = 0
    THEN [paths |-> found, endless |-> TRUE, queue |-> queue]
    ELSE LET after(ext) ==
                 construct_path_loop(ext.queue, ext.paths, member,
                                     preds_index, fuel - 1)
         IN  Bind(construct_path_preds(Get(preds_index, Head(queue)[1], <<>>),
                                       1, Head(queue), member, Tail(queue),
                                       found),
                  after)

\* construct_path_search replacing the path cache by the one entry it has
\* computed (self.paths = {(member, target): paths})
construct_path_search_reset(target, member, st) ==
    LET counted == Put(st.nsearch, <<member, target>>,
                       Get(st.nsearch, <<member, target>>, 0) + 1)
        after(s) ==
            IF s.endless
            THEN [st |-> [st EXCEPT !.nsearch = counted, !.queue = s.queue],
                  ret |-> <<>>, err |-> <<"Endless">>]
            ELSE [st |-> [Log(st, <<"FoundPaths", Len(s.paths),
                                    member, target>>)
                          EXCEPT !.paths = Put(<<>>, <<member, target>>,
                                               s.paths),
                                 !.nsearch = counted],
                  ret |-> s.paths, err |-> NoError]
    IN  Bind(construct_path_loop(<<<<target>>>>, <<>>, member,
                                 st.predecessors, MaxSearch),
             after)

\* construct_path_search caching the first path only (paths[:1]) while it
\* returns them all
construct_path_search_first_only(target, member, st) ==
    LET counted == Put(st.nsearch, <<member, target>>,
                       Get(st.nsearch, <<member, target>>, 0) + 1)
        after(s) ==
            IF s.endless
            THEN [st |-> [st EXCEPT !.nsearch = counted, !.queue = s.queue],
                  ret |-> <<>>, err |-> <<"Endless">>]
            ELSE [st |-> [Log(st, <<"FoundPaths", Len(s.paths),
                                    member, target>>)
                          EXCEPT !.paths = Put(@, <<member, target>>,
                                               SubSeq(s.paths, 1,
                                                      Min(1, Len(s.paths)))),
                                 !.nsearch = counted],
                  ret |-> s.paths, err |-> NoError]
    IN  Bind(construct_path_loop(<<<<target>>>>, <<>>, member,
                                 st.predecessors, MaxSearch),
             after)

\* lines 108-121: the search, the store of its result under (member, target)
\* and the count of the searches run for that key
construct_path_search(target, member, st) ==
    LET counted == Put(st.nsearch, <<member, target>>,
                       Get(st.nsearch, <<member, target>>, 0) + 1)
        after(s) ==
            IF s.endless
            THEN [st |-> [st EXCEPT !.nsearch = counted, !.queue = s.queue],
                  ret |-> <<>>, err |-> <<"Endless">>]
            ELSE [st |-> [Log(st, <<"FoundPaths", Len(s.paths),
                                    member, target>>)
                          EXCEPT !.paths = Put(@, <<member, target>>, s.paths),
                                 !.nsearch = counted],
                  ret |-> s.paths, err |-> NoError]
    IN  Bind(construct_path_loop(<<<<target>>>>, <<>>, member,
                                 st.predecessors, MaxSearch),
             after)

\* construct_path looking the cache up under (target, member)
construct_path_swapped_key(target, member, st) ==
    IF <<target, member>> \in DOMAIN st.paths
    THEN [st |-> Log(st, <<"CachedPaths", member, target>>),
          ret |-> st.paths[<<target, member>>], err |-> NoError]
    ELSE construct_path_search(target, member, st)

\* construct_path testing the cached list for truth, as build_graph tests
\* its cached set, instead of testing the key
construct_path_truthy(target, member, st) ==
    IF Get(st.paths, <<member, target>>, <<>>) # <<>>
    THEN [st |-> Log(st, <<"CachedPaths", member, target>>),
          ret |-> st.paths[<<member, target>>], err |-> NoError]
    ELSE construct_path_search(target, member, st)

construct_path(target, member, st) ==
    IF <<member, target>> \in DOMAIN st.paths
    THEN [st |-> Log(st, <<"CachedPaths", member, target>>),
          ret |-> st.paths[<<member, target>>], err |-> NoError]
    ELSE construct_path_search(target, member, st)

-----------------------------------------------------------------------------
(* QueryTool.check_membership *)

\* check_membership calling _construct_path before build_graph
check_membership_paths_first(entity, target, st) ==
    LET after_graph(p, g) ==
            IF g.err # NoError
            THEN [st |-> g.st, built |-> {}, ret |-> <<>>, err |-> g.err]
            ELSE [st |-> Log(g.st, IF p.ret # <<>>
                                   THEN <<"IS", entity, target>>
                                   ELSE <<"ISNOT", entity, target>>),
                  built |-> g.ret, ret |-> p.ret, err |-> NoError]
        after_paths(p) ==
            IF p.err # NoError
            THEN [st |-> p.st, built |-> {}, ret |-> <<>>, err |-> p.err]
            ELSE LET after(g) == after_graph(p, g)
                 IN  Bind(build_graph(entity, p.st, 1), after)
    IN  Bind(construct_path(target, entity, st), after_paths)

\* built is the set build_graph returned at line 86
check_membership(entity, target, st) ==
    LET after_paths(g, p) ==
            IF p.err # NoError
            THEN [st |-> p.st, built |-> g.ret, ret |-> <<>>, err |-> p.err]
            ELSE [st |-> Log(p.st, IF p.ret # <<>>
                                   THEN <<"IS", entity, target>>
                                   ELSE <<"ISNOT", entity, target>>),
                  built |-> g.ret, ret |-> p.ret, err |-> NoError]
        after_graph(g) ==
            IF g.err # NoError
            THEN [st |-> g.st, built |-> {}, ret |-> <<>>, err |-> g.err]
            ELSE LET after(p) == after_paths(g, p)
                 IN  Bind(construct_path(target, entity, g.st), after)
    IN  Bind(build_graph(entity, st, 1), after_graph)

-----------------------------------------------------------------------------
(* QueryTool._resolve_entities and QueryTool._query_membership *)

RECURSIVE resolve_entities(_, _, _)

\* the loop of lines 54-59 from the i-th reference on; result so far
resolve_entities(entity_list, i, result) ==
    IF i > Len(entity_list)
    THEN [ret |-> result, err |-> NoError]
    ELSE IF find_entity(entities, entity_list[i][1], entity_list[i][2]) = None
    THEN [ret |-> result,
          err |-> <<"ManagerError", entity_list[i][1], entity_list[i][2]>>]
    ELSE resolve_entities(entity_list, i + 1,
             Append(result, find_entity(entities, entity_list[i][1],
                                        entity_list[i][2])))

RECURSIVE query_membership_loop_by_target(_, _, _, _, _, _)

\* query_membership_loop with the two loops exchanged: targets outside
query_membership_loop_by_target(member_entities, target_entities, i, j, calls, st) ==
    IF j > Len(target_entities)
    THEN [st |-> st, calls |-> calls, err |-> NoError]
    ELSE IF i > Len(member_entities)
    THEN query_membership_loop_by_target(member_entities, target_entities,
                                         1, j + 1, calls, st)
    ELSE LET made == Append(calls, <<member_entities[i], target_entities[j]>>)
             after(c) ==
                 IF c.err # NoError
                 THEN [st |-> c.st, calls |-> made, err |-> c.err]
                 ELSE query_membership_loop_by_target(member_entities,
                          target_entities, i + 1, j, made, c.st)
         IN  Bind(check_membership(member_entities[i], target_entities[j],
                                   st),
                  after)

RECURSIVE query_membership_loop(_, _, _, _, _, _)

\* lines 100-102: the nested loops, at member i and target j; calls is the
\* list of check_membership invocations made so far
query_membership_loop(member_entities, target_entities, i, j, calls, st) ==
    IF i > Len(member_entities)
    THEN [st |-> st, calls |-> calls, err |-> NoError]
    ELSE IF j > Len(target_entities)
    THEN query_membership_loop(member_entities, target_entities, i + 1, 1,
                               calls, st)
    ELSE LET made == Append(calls, <<member_entities[i], target_entities[j]>>)
             after(c) ==
                 IF c.err # NoError
                 THEN [st |-> c.st, calls |-> made, err |-> c.err]
                 ELSE query_membership_loop(member_entities, target_entities,
                                            i, j + 1, made, c.st)
         IN  Bind(check_membership(member_entities[i], target_entities[j],
                                   st),
                  after)

\* query_membership resolving the targets only after the members' loop has
\* started: an unresolved target no longer stops the pairs before it
query_membership_partial(members, targets, st) ==
    LET after_targets(member_entities, target_entities) ==
            LET after(done) ==
                    IF target_entities.err # NoError
                    THEN [done EXCEPT !.err = target_entities.err]
                    ELSE done
            IN  Bind(query_membership_loop(member_entities.ret,
                                           target_entities.ret, 1, 1,
                                           <<>>, st),
                     after)
        after_members(member_entities) ==
            IF member_entities.err # NoError
            THEN [st |-> st, calls |-> <<>>, err |-> member_entities.err]
            ELSE LET after(target_entities) ==
                         after_targets(member_entities, target_entities)
                 IN  Bind(resolve_entities(targets, 1, <<>>), after)
    IN  Bind(resolve_entities(members, 1, <<>>), after_members)

query_membership(members, targets, st) ==
    LET after_targets(member_entities, target_entities) ==
            IF target_entities.err # NoError
            THEN [st |-> st, calls |-> <<>>, err |-> target_entities.err]
            ELSE query_membership_loop(member_entities.ret,
                                       target_entities.ret, 1, 1, <<>>, st)
        after_members(member_entities) ==
            IF member_entities.err # NoError
            THEN [st |-> st, calls |-> <<>>, err |-> member_entities.err]
            ELSE LET after(target_entities) ==
                         after_targets(member_entities, target_entities)
                 IN  Bind(resolve_entities(targets, 1, <<>>), after)
    IN  Bind(resolve_entities(members, 1, <<>>), after_members)

-----------------------------------------------------------------------------
(* _entity_type, _parse_args and main *)

\* A command-line string is the sequence of its ':' characters and of the
\* pieces of text between them that hold no ':'.
Pieces == {"group", "g1", "g2", ":"}

RawStrings == SeqsUpTo(Pieces, MaxPieces)

RECURSIVE split_scan(_, _, _)

\* value.split(':') from position i on, parts ending with the part being read
split_scan(value, i, parts) ==
    IF i > Len(value)
    THEN parts
    ELSE IF value[i] = ":"
    THEN split_scan(value, i + 1, Append(parts, ""))
    ELSE split_scan(value, i + 1,
                    [parts EXCEPT ![Len(parts)] = @ \o value[i]])

split(value) == split_scan(value, 1, <<"">>)

\* entity_type unpacking the first two parts and dropping any further one
entity_type_first_two(value) ==
    IF Len(split(value)) < 2
    THEN [ret |-> None,
          err |-> <<"ValueError", "need more than 1 value to unpack">>]
    ELSE [ret |-> <<split(value)[1], split(value)[2]>>, err |-> NoError]

\* lines 160-162: the parts of the string unpacked into two names
entity_type(value) ==
    IF Len(split(value)) < 2
    THEN [ret |-> None,
          err |-> <<"ValueError", "need more than 1 value to unpack">>]
    ELSE IF Len(split(value)) > 2
    THEN [ret |-> None, err |-> <<"ValueError", "too many values to unpack">>]
    ELSE [ret |-> <<split(value)[1], split(value)[2]>>, err |-> NoError]

RECURSIVE parse_args(_, _, _)

\* lines 146-153: the argument parser applies _entity_type to each string of
\* a list and gives up at the first error
parse_args(raw_list, i, result) ==
    IF i > Len(raw_list)
    THEN [ret |-> result, err |-> NoError]
    ELSE IF entity_type(raw_list[i]).err # NoError
    THEN [ret |-> result, err |-> entity_type(raw_list[i]).err]
    ELSE parse_args(raw_list, i + 1,
                    Append(result, entity_type(raw_list[i]).ret))

\* lines 165-169: parse the command line, then run the orchestrator on the
\* parsed references; refs are the lists handed to _query_membership
main(raw_members, raw_targets, st) ==
    LET rejected(err) == [st |-> st, calls |-> <<>>, err |-> err,
                          refs |-> <<>>, ran |-> FALSE]
        querytool_run(members, targets) ==
            LET after(r) == [st |-> r.st, calls |-> r.calls, err |-> r.err,
                             refs |-> <<members, targets>>, ran |-> TRUE]
            IN  Bind(query_membership(members, targets, st), after)
        after_targets(members, targets) ==
            IF targets.err # NoError
            THEN rejected(targets.err)
            ELSE querytool_run(members.ret, targets.ret)
        after_members(members) ==
            IF members.err # NoError
            THEN rejected(members.err)
            ELSE LET next(targets) == after_targets(members, targets)
                 IN  Bind(parse_args(raw_targets, 1, <<>>), next)
    IN  Bind(parse_args(raw_members, 1, <<>>), after_members)

-----------------------------------------------------------------------------
(* Entity stores *)

\* member-of lists that only name entities later in EntityOrder: every
\* acyclic store without dangling references is one of these up to renaming
AcyclicStores ==
    {m \in [Range(EntityOrder) ->
              NoDupSeqs(Range(EntityOrder), MaxMemberOf)] :
        \A i \in DOMAIN EntityOrder :
            \A x \in Range(m[EntityOrder[i]]) :
                \E j \in DOMAIN EntityOrder : j > i /\ x = EntityOrder[j]}

\* member-of lists over all groups, g3 included although SmallDict lacks it:
\* these stores may hold cycles and dangling references
AnyStores == [Objects(SmallDict) -> NoDupSeqs({G1, G2, G3}, MaxMemberOf)]

\* u1 -> g1 -> g2 -> g3, the shape of the store of test_build_graph
ChainStore == [e \in Range(EntityOrder) |->
                 IF e = U1 THEN <<G1>> ELSE IF e = G1 THEN <<G2>>
                 ELSE IF e = G2 THEN <<G3>> ELSE <<>>]

\* u1 -> g3 directly and through g2, the shape of test_check_membership
TwoRouteStore == [e \in Range(EntityOrder) |->
                    IF e = U1 THEN <<G3, G2>> ELSE IF e = G1 THEN <<G2>>
                    ELSE IF e = G2 THEN <<G3>> ELSE <<>>]

QueryStores == {ChainStore, TwoRouteStore}

-----------------------------------------------------------------------------
(* The session: QueryTool.__init__ and the calls made on the tool *)

\* what the last call was and did: its arguments, the set build_graph
\* returned (reach), the path list returned (found), the exception raised,
\* the log records emitted and the check_membership calls made
NoCall == [op |-> "init", args |-> <<>>, reach |-> {}, found |-> <<>>,
           err |-> NoError, log |-> <<>>, calls |-> <<>>, refs |-> <<>>,
           queue |-> <<>>]

\* no check_membership is under way: run is the position of a
\* check_membership executed statement by statement, with the frames of its
\* build_graph calls and the queue and paths of its search
Idle == [pc |-> "idle", member |-> None, target |-> None, start |-> <<>>,
         stack |-> <<>>, arg |-> None, retval |-> {}, queue |-> <<>>,
         found |-> <<>>]

InitSession ==
    /\ run = Idle
    /\ graph = <<>>
    /\ predecessors = <<>>
    /\ paths = <<>>
    /\ nsearch = <<>>
    /\ last = NoCall
    /\ nreq = 0
    /\ ran = FALSE

Init ==
    /\ entities = FullDict
    /\ memberOf \in AcyclicStores
    /\ InitSession

InitAny ==
    /\ entities = SmallDict
    /\ memberOf \in AnyStores
    /\ InitSession

InitQuery ==
    /\ entities = FullDict
    /\ memberOf \in QueryStores
    /\ InitSession

\* the session after a call that left it in state st
Commit(st) ==
    /\ graph' = st.graph
    /\ predecessors' = st.predecessors
    /\ paths' = st.paths
    /\ nsearch' = st.nsearch
    /\ nreq' = nreq + 1
    /\ UNCHANGED <<store, run>>

\* no call follows one that never returned, none starts while one is under way
Running ==
    nreq < MaxRequests /\ last.err # <<"Endless">> /\ run.pc = "idle"

BuildGraph(entity) ==
    /\ Running
    /\ UNCHANGED ran
    /\ \E r \in {build_graph(entity, Session, 1)} :
           /\ Commit(r.st)
           /\ last' = [NoCall EXCEPT !.op = "build_graph",
                          !.args = <<entity>>,
                          !.reach = IF r.err = NoError THEN r.ret ELSE {},
                          !.err = r.err, !.log = r.st.log]

CheckMembership(entity, target) ==
    /\ Running
    /\ UNCHANGED ran
    /\ \E r \in {check_membership(entity, target, Session)} :
           /\ Commit(r.st)
           /\ last' = [NoCall EXCEPT !.op = "check_membership",
                          !.args = <<entity, target>>,
                          !.reach = r.built, !.found = r.ret,
                          !.err = r.err, !.log = r.st.log,
                          !.queue = r.st.queue]

\* main runs the orchestrator once on the tool it has built
QueryMembership(members, targets) ==
    /\ Running
    /\ ~ran
    /\ ran' = TRUE
    /\ \E r \in {query_membership(members, targets, Session)} :
           /\ Commit(r.st)
           /\ last' = [NoCall EXCEPT !.op = "query_membership",
                          !.args = <<members, targets>>,
                          !.err = r.err, !.log = r.st.log,
                          !.calls = r.calls]

\* main on a command line of one member string and one target string, on
\* the tool it has just built
Main(raw_members, raw_targets) ==
    /\ nreq = 0
    /\ ~ran
    /\ \E r \in {main(raw_members, raw_targets, Session)} :
           /\ Commit(r.st)
           /\ ran' = r.ran
           /\ last' = [NoCall EXCEPT !.op = "main",
                          !.args = <<raw_members, raw_targets>>,
                          !.err = r.err, !.log = r.st.log,
                          !.calls = r.calls, !.refs = r.refs]

\* the references a caller may hand in: entities of the store and a missing one
QueryRefs == {U1, G1, Ghost}

\* the calls on a loaded tool: list_groups and check_membership build graphs
\* and check pairs
Next ==
    \/ \E e \in Objects(entities) : BuildGraph(e)
    \/ \E e, t \in Objects(entities) : CheckMembership(e, t)

\* the same with the orchestrator run by main
NextQuery ==
    \/ Next
    \/ \E ms, ts \in SeqsUpTo(QueryRefs, MaxList) : QueryMembership(ms, ts)

\* sessions over the acyclic stores
Spec == Init /\ [][Next]_vars

\* sessions over stores that may hold cycles and dangling references
SpecAny == InitAny /\ [][Next]_vars

\* sessions with the orchestrator over the stores of the tests
SpecQuery == InitQuery /\ [][NextQuery]_vars

\* the command line of the one run of main: -m and -t take at least one
\* string each
NextMain == nreq = 0 /\ \E m, t \in RawStrings : Main(<<m>>, <<t>>)

SpecMain == InitQuery /\ [][NextMain]_vars

-----------------------------------------------------------------------------
(* check_membership executed statement by statement *)

\* search_step putting a partial path that has no predecessor back at the
\* end of the queue
search_step_requeue(queue, found, member, preds_index) ==
    IF Get(preds_index, Head(queue)[1], <<>>) = <<>>
    THEN [queue |-> Append(Tail(queue), Head(queue)), paths |-> found]
    ELSE construct_path_preds(Get(preds_index, Head(queue)[1], <<>>), 1,
                              Head(queue), member, Tail(queue), found)

\* lines 111-118: one turn of the while-loop, current being the head of
\* the queue
search_step(queue, found, member, preds_index) ==
    construct_path_preds(Get(preds_index, Head(queue)[1], <<>>), 1,
                         Head(queue), member, Tail(queue), found)

\* check_membership returns or raises
Finish(found, err) ==
    /\ run' = Idle
    /\ nreq' = nreq + 1
    /\ last' = [NoCall EXCEPT !.op = "check_membership",
                   !.args = <<run.member, run.target>>,
                   !.reach = IF err = NoError THEN run.retval ELSE {},
                   !.found = found, !.err = err]

\* line 86: check_membership(entity, target) calls build_graph(entity)
StartCheck(entity, target) ==
    /\ Running
    /\ run' = [Idle EXCEPT !.pc = "call", !.member = entity,
                  !.target = target, !.arg = entity, !.start = Session]
    /\ UNCHANGED <<store, graph, predecessors, paths, nsearch, last, nreq,
                   ran>>

\* lines 66-71: build_graph(arg) is entered; it returns the stored set if
\* that is not empty and else opens a frame for its loops
CallStep ==
    /\ run.pc = "call"
    /\ UNCHANGED <<store, graph, predecessors, paths, nsearch, ran>>
    /\ IF Len(run.stack) >= RecursionLimit
       THEN Finish(<<>>, <<"RuntimeError">>)
       ELSE IF Get(graph, run.arg, {}) # {}
       THEN /\ run' = [run EXCEPT !.pc = "ret", !.retval = graph[run.arg]]
            /\ UNCHANGED <<last, nreq>>
       ELSE IF run.arg = None
       THEN Finish(<<>>, <<"AttributeError">>)
       ELSE /\ run' = [run EXCEPT !.pc = "loop",
                          !.stack = Append(@,
                              [entity |-> run.arg, i |-> 1,
                               result |-> Get(graph, run.arg, {}),
                               aliased |-> run.arg \in DOMAIN graph])]
            /\ UNCHANGED <<last, nreq>>

\* lines 72-79 and 81-83 in the innermost frame: the next reference is
\* resolved, added to result and to the predecessor index and build_graph is
\* called on it; after the last reference the result is stored and returned
LoopStep ==
    /\ run.pc = "loop"
    /\ UNCHANGED <<store, paths, nsearch, last, nreq, ran>>
    /\ LET n == Len(run.stack)
           top == run.stack[n]
       IN  IF top.i > Len(memberOf[top.entity])
           THEN /\ graph' = Put(graph, top.entity, top.result)
                /\ UNCHANGED predecessors
                /\ run' = [run EXCEPT !.pc = "ret",
                              !.stack = SubSeq(@, 1, n - 1),
                              !.retval = top.result]
           ELSE LET ref == memberOf[top.entity][top.i]
                    target_entity == find_entity(entities, ref[1], ref[2])
                    r1 == top.result \cup {target_entity}
                IN  /\ graph' = IF top.aliased
                                THEN Put(graph, top.entity, r1) ELSE graph
                    /\ predecessors' =
                           Put(predecessors, target_entity,
                               Append(Get(predecessors, target_entity, <<>>),
                                      top.entity))
                    /\ run' = [run EXCEPT !.pc = "call",
                                  !.arg = target_entity,
                                  !.stack[n].result = r1]

\* a build_graph call returns: into line 80 of the calling frame, or, for
\* the outermost call, into line 87 of check_membership and on to lines
\* 105-109 of _construct_path
RetStep ==
    /\ run.pc = "ret"
    /\ UNCHANGED <<store, predecessors, paths, nsearch, ran>>
    /\ IF run.stack = <<>>
       THEN /\ UNCHANGED graph
            /\ IF <<run.member, run.target>> \in DOMAIN paths
               THEN Finish(paths[<<run.member, run.target>>], NoError)
               ELSE /\ run' = [run EXCEPT !.pc = "search",
                                  !.queue = <<<<run.target>>>>,
                                  !.found = <<>>]
                    /\ UNCHANGED <<last, nreq>>
       ELSE LET n == Len(run.stack)
                top == run.stack[n]
            IN  /\ graph' = IF top.aliased
                            THEN Put(graph, top.entity,
                                     top.result \cup run.retval)
                            ELSE graph
                /\ run' = [run EXCEPT !.pc = "loop",
                              !.stack[n].result = @ \cup run.retval,
                              !.stack[n].i = @ + 1]
                /\ UNCHANGED <<last, nreq>>

\* lines 110-121: one turn of the while-loop, or, the queue being empty,
\* the store of the paths found and the return of check_membership
SearchStep ==
    /\ run.pc = "search"
    /\ UNCHANGED <<store, graph, predecessors, ran>>
    /\ IF run.queue = <<>>
       THEN /\ paths' = Put(paths, <<run.member, run.target>>, run.found)
            /\ nsearch' = Put(nsearch, <<run.member, run.target>>,
                              Get(nsearch, <<run.member, run.target>>, 0) + 1)
            /\ Finish(run.found, NoError)
       ELSE /\ \E ext \in {search_step(run.queue, run.found, run.member,
                                        predecessors)} :
                   run' = [run EXCEPT !.queue = ext.queue,
                              !.found = ext.paths]
            /\ UNCHANGED <<paths, nsearch, last, nreq>>

\* the statements of the check_membership under way
Step == CallStep \/ LoopStep \/ RetStep \/ SearchStep

NextSteps ==
    \/ \E e \in Objects(entities) : BuildGraph(e)
    \/ \E e, t \in Objects(entities) : StartCheck(e, t)
    \/ CallStep
    \/ LoopStep
    \/ RetStep
    \/ SearchStep

\* the interpreter goes on executing a call that has started
SpecSteps == Init /\ [][NextSteps]_vars /\ WF_vars(Step)

-----------------------------------------------------------------------------
(* The member-of relation of the store, read off the entity records *)

\* the entities x declares itself a member of
Declared(x) ==
    IF x \in DOMAIN memberOf
    THEN {find_entity(entities, r[1], r[2]) : r \in Range(memberOf[x])}
    ELSE {}

RECURSIVE Closure(_)
Closure(S) ==
    LET T == S \cup UNION {Declared(x) : x \in S}
    IN  IF T = S THEN S ELSE Closure(T)

\* the entities reachable from e by one or more member-of edges
Reachable(e) == Closure(Declared(e))

\* the simple paths from m to t along member-of edges
SimplePaths(m, t) ==
    {p \in NoDupSeqs(Objects(entities), Cardinality(Objects(entities))) :
        /\ Len(p) >= 2
        /\ p[1] = m
        /\ p[Len(p)] = t
        /\ \A i \in 1..(Len(p) - 1) : p[i + 1] \in Declared(p[i])}

Acyclic == \A e \in Objects(entities) : e \notin Reachable(e)

Checked == last.op = "check_membership" /\ last.err = NoError

Built == last.op = "build_graph" /\ last.err = NoError

-----------------------------------------------------------------------------
(* Claims *)

\* C1: on an acyclic store, after build_graph(member) the path list of
\* (member, target) is empty exactly when target is not in the set
\* build_graph(member) returned, whatever was resolved before.
C1_EmptyIffNotReached ==
    Checked => ((last.found = <<>>) <=> (last.args[2] \notin last.reach))

\* a member found after another entity was resolved earlier in the session
C1_Witness ==
    /\ Checked
    /\ nreq = 2
    /\ last.found # <<>>
    /\ last.args[2] \in last.reach
    /\ \E x \in DOMAIN graph : x \notin last.reach \cup {last.args[1]}

\* C2: on an acyclic store build_graph(E) returns exactly the entities
\* reachable from E, never E itself, and then graph holds the exact
\* reachable set of E and of every entity reachable from E.
C2_ExactReachableSets ==
    Built =>
        /\ last.reach = Reachable(last.args[1])
        /\ last.args[1] \notin last.reach
        /\ \A x \in {last.args[1]} \cup Reachable(last.args[1]) :
               x \in DOMAIN graph /\ graph[x] = Reachable(x)

\* a build that reached an entity two edges away
C2_Witness ==
    /\ Built
    /\ \E x \in last.reach : x \notin Declared(last.args[1])
    /\ Cardinality(last.reach) >= 2

\* C3: on an acyclic store the paths returned for (member, target) are all
\* the simple paths from member to target, of every length.
C3_AllSimplePaths ==
    Checked => Range(last.found) = SimplePaths(last.args[1], last.args[2])

\* two routes of different lengths were returned
C3_Witness ==
    /\ Checked
    /\ \E i, j \in DOMAIN last.found : Len(last.found[i]) < Len(last.found[j])

\* C4: every returned path starts with the member, ends with the target,
\* repeats no entity and follows declared member-of edges.
C4_PathsAreReal ==
    Checked =>
        \A k \in DOMAIN last.found :
            LET p == last.found[k]
            IN  /\ Len(p) >= 2
                /\ p[1] = last.args[1]
                /\ p[Len(p)] = last.args[2]
                /\ NoDup(p)
                /\ \A i \in 1..(Len(p) - 1) : p[i + 1] \in Declared(p[i])

\* a path through two intermediate groups was returned
C4_Witness ==
    /\ Checked
    /\ \E k \in DOMAIN last.found : Len(last.found[k]) = 4

\* C5: on a store whose member-of relation holds a cycle through several
\* entities (A member-of B, B member-of A), build_graph of an entity on the
\* cycle returns, and returns the entities reachable from it apart from
\* itself; no cycle exhausts the recursion.
C5_CyclesTerminate ==
    (last.op = "build_graph" /\ last.args[1] \in Reachable(last.args[1])
        /\ last.args[1] \notin Declared(last.args[1])
        /\ None \notin Reachable(last.args[1]))
    => /\ last.err = NoError
       /\ last.reach = Reachable(last.args[1]) \ {last.args[1]}

\* C6: a build_graph(E) for an E that already has a graph entry is a pure
\* memo hit: it returns the stored set, logs only the memo hit and leaves
\* graph and predecessors as they were.
C6_SecondBuildIsMemoHit ==
    [][(last'.op = "build_graph" /\ nreq' = nreq + 1
          /\ last'.args[1] \in DOMAIN graph)
       => /\ last'.err = NoError
          /\ last'.reach = graph[last'.args[1]]
          /\ last'.log = <<<<"AlreadyCalculated", last'.args[1]>>>>
          /\ graph' = graph
          /\ predecessors' = predecessors]_vars

\* C7: the backward search runs once per distinct (member, target) key:
\* every key asked for has one stored list and one search, and a check
\* returns the list stored under its own key.
C7_SearchOncePerKey ==
    /\ DOMAIN nsearch = DOMAIN paths
    /\ \A k \in DOMAIN nsearch : nsearch[k] = 1
    /\ Checked =>
           /\ <<last.args[1], last.args[2]>> \in DOMAIN paths
           /\ last.found = paths[<<last.args[1], last.args[2]>>]

\* the second request of a session hit the cache for a pair found empty
C7_Witness ==
    /\ Checked
    /\ nreq = 2
    /\ last.found = <<>>
    /\ \E i \in DOMAIN last.log :
           last.log[i] = <<"CachedPaths", last.args[1], last.args[2]>>
    /\ nsearch[<<last.args[1], last.args[2]>>] = 1

\* the full cross product of two lists, members outside, targets inside
CrossProduct(ms, ts) ==
    [k \in 1..(Len(ms) * Len(ts)) |->
        <<ms[((k - 1) \div Len(ts)) + 1], ts[((k - 1) % Len(ts)) + 1]>>]

Queried == last.op = "query_membership"

\* C8: _query_membership calls check_membership once for every pair of the
\* cross product of its lists, in nested input order.
C8_CrossProductInOrder ==
    (Queried /\ last.err = NoError)
    => last.calls = CrossProduct(last.args[1], last.args[2])

\* two members against two targets, one pair being an entity with itself
C8_Witness ==
    /\ Queried
    /\ Len(last.calls) = 4
    /\ last.args[1][1] # last.args[1][2]
    /\ last.args[2][1] # last.args[2][2]
    /\ \E k \in DOMAIN last.calls : last.calls[k][1] = last.calls[k][2]

\* the references of a query that the store does not hold
Missing(args) ==
    {r \in Range(args[1]) \cup Range(args[2]) : r \notin Objects(entities)}

\* C9: a _query_membership with a reference missing from the store fails
\* with an error naming a missing reference, calls check_membership for no
\* pair and leaves graph, predecessors and paths as they were.
C9_UnresolvedAborts ==
    [][(last'.op = "query_membership" /\ nreq' = nreq + 1
          /\ Missing(last'.args) # {})
       => /\ Len(last'.err) = 3
          /\ last'.err[1] = "ManagerError"
          /\ <<last'.err[2], last'.err[3]>> \in Missing(last'.args)
          /\ last'.calls = <<>>
          /\ last'.log = <<>>
          /\ graph' = graph
          /\ predecessors' = predecessors
          /\ paths' = paths]_vars

\* a query with a missing target after a resolvable pair, in a session that
\* had already cached paths
C9_Witness ==
    /\ Queried
    /\ last.err = <<"ManagerError", Ghost[1], Ghost[2]>>
    /\ Len(last.args[1]) >= 1
    /\ Len(last.args[2]) = 2
    /\ Missing(last.args) = {last.args[2][2]}
    /\ paths # <<>>

\* C10: a member-of edge naming an entity absent from the store adds the
\* absent target to no reachable set, records it neither as key nor as
\* value of the predecessor index, and is not descended into.
C10_DanglingLeavesNoTrace ==
    /\ None \notin DOMAIN predecessors
    /\ \A x \in DOMAIN predecessors : None \notin Range(predecessors[x])
    /\ \A x \in DOMAIN graph : None \notin graph[x]
    /\ \A i \in DOMAIN last.log : last.log[i] # <<"Calculating", None>>

\* C11: the paths _construct_path returns are in breadth-first order: a path
\* is never longer than a path after it in the list, so that a direct edge
\* comes first, whatever was resolved earlier in the session.
C11_ShorterPathsFirst ==
    Checked =>
        /\ \A i, j \in DOMAIN last.found :
               i < j => Len(last.found[i]) <= Len(last.found[j])
        /\ (last.args[2] \in Declared(last.args[1])
               => last.found[1] = <<last.args[1], last.args[2]>>)

\* a direct edge returned ahead of a longer path, then a path longer still,
\* for a member checked after an earlier resolution
C11_Witness ==
    /\ Checked
    /\ nreq = 2
    /\ Len(last.found) >= 3
    /\ Len(last.found[1]) = 2
    /\ Len(last.found[2]) = 3
    /\ Len(last.found[Len(last.found)]) = 4

\* the number of ':' characters of a command-line string
Colons(raw) == Cardinality({i \in DOMAIN raw : raw[i] = ":"})

RECURSIVE Text(_)
\* the text of a sequence of pieces
Text(raw) == IF raw = <<>> THEN "" ELSE Head(raw) \o Text(Tail(raw))

\* the text before and the text after the only ':' of a string
Halves(raw) ==
    LET k == CHOOSE i \in DOMAIN raw : raw[i] = ":"
    IN  <<Text(SubSeq(raw, 1, k - 1)), Text(SubSeq(raw, k + 1, Len(raw)))>>

Malformed(args) ==
    {raw \in Range(args[1]) \cup Range(args[2]) : Colons(raw) # 1}

\* C12: a command-line string becomes a (type, name) pair exactly when it
\* holds exactly one ':'; with any other string on the command line main
\* fails with the ValueError of the parse and _query_membership is not
\* invoked, so that no session state is touched.
C12_MalformedRejected ==
    last.op = "main" =>
        /\ ran <=> (Malformed(last.args) = {})
        /\ ran => /\ Len(last.refs) = 2
                  /\ \A k \in 1..2 :
                         /\ Len(last.refs[k]) = Len(last.args[k])
                         /\ \A i \in DOMAIN last.args[k] :
                                last.refs[k][i] = Halves(last.args[k][i])
        /\ ~ran => /\ Len(last.err) = 2
                   /\ last.err[1] = "ValueError"
                   /\ last.refs = <<>>
                   /\ last.calls = <<>>
                   /\ last.log = <<>>
                   /\ graph = <<>> /\ predecessors = <<>> /\ paths = <<>>

\* a command line whose member string parses and whose target string has a
\* part too many
C12_Witness ==
    /\ last.op = "main"
    /\ last.args[1] = << <<"group", ":", "g1">> >>
    /\ last.args[2] = << <<"group", ":", ":">> >>
    /\ last.err = <<"ValueError", "too many values to unpack">>
    /\ ~ran

\* C13: whatever the predecessor index, cyclic or not, every partial path
\* _construct_path has in its queue and every path it returns has pairwise
\* distinct elements.
C13_PathsNeverRepeat ==
    \A p \in Range(last.queue) \cup Range(last.found) : NoDup(p)

\* the call that has just returned was a build_graph or a check_membership
WalkReturned ==
    nreq' = nreq + 1 /\ last'.op \in {"build_graph", "check_membership"}

\* C14: an entry build_graph has stored is not computed again, replaced,
\* shrunk or removed by a later build_graph or check_membership, and every
\* list of the predecessor index only grows at its end.
C14_EntriesNeverRecomputed ==
    [][WalkReturned =>
         /\ \A x \in DOMAIN graph :
                /\ x \in DOMAIN graph'
                /\ graph'[x] = graph[x]
                /\ \A i \in DOMAIN last'.log :
                       last'.log[i] # <<"Calculating", x>>
         /\ \A y \in DOMAIN predecessors :
                /\ y \in DOMAIN predecessors'
                /\ Len(predecessors'[y]) >= Len(predecessors[y])
                /\ SubSeq(predecessors'[y], 1, Len(predecessors[y]))
                      = predecessors[y]]_vars

\* C15: in every state of a session, whenever p occurs in predecessors[x],
\* x is an entity of the store and the record of p declares x in its
\* member-of relation.
C15_RecordedEdgesAreReal ==
    \A x \in DOMAIN predecessors :
        /\ x \in Objects(entities)
        /\ \A i \in DOMAIN predecessors[x] :
               /\ predecessors[x][i] \in Objects(entities)
               /\ x \in Range(memberOf[predecessors[x][i]])

\* C16: after build_graph(member) has returned on an acyclic store, every
\* entity x that is member or reachable from it occurs in predecessors[y]
\* for every y its record declares, also when x had been resolved by an
\* earlier call and build_graph(member) took the memo hit for it.
C16_PredecessorsComplete ==
    (Built \/ Checked) =>
        \A x \in {last.args[1]} \cup Reachable(last.args[1]) :
            \A y \in Declared(x) :
                /\ y \in DOMAIN predecessors
                /\ x \in Range(predecessors[y])

\* a walk that took the memo hit for an entity with member-of edges that an
\* earlier call had resolved
C16_Witness ==
    /\ Built
    /\ nreq = 2
    /\ \E x \in Reachable(last.args[1]) :
           /\ Declared(x) # {}
           /\ \E i \in DOMAIN last.log :
                  last.log[i] = <<"AlreadyCalculated", x>>
           /\ \A i \in DOMAIN last.log :
                  last.log[i] # <<"Calculating", x>>

\* the log entry with which a search or a cache read for a pair ends
IsSearch(ev) == ev[1] \in {"FoundPaths", "CachedPaths"}

\* the (member, target) pair of such an entry
SearchPair(ev) ==
    IF ev[1] = "FoundPaths" THEN <<ev[3], ev[4]>> ELSE <<ev[2], ev[3]>>

\* the log entry with which build_graph(m) returns
BuildReturned(ev, m) ==
    \/ ev = <<"AlreadyCalculated", m>>
    \/ ev[1] = "Found" /\ ev[3] = m

IsVerdict(ev) == ev[1] \in {"IS", "ISNOT"}

\* C17: in a check_membership or a _query_membership the search for a pair
\* (member, target) follows at once the return of build_graph(member) and
\* is followed at once by the verdict on the pair, no verdict comes without
\* its search, the pairs are entities the store holds, and nothing is built
\* when a reference does not resolve.
C17_ResolveBuildSearchVerdict ==
    last.op \in {"check_membership", "query_membership"} =>
        /\ \A k \in DOMAIN last.log :
               IsSearch(last.log[k]) =>
                   /\ k > 1
                   /\ BuildReturned(last.log[k - 1],
                                    SearchPair(last.log[k])[1])
                   /\ k < Len(last.log)
                   /\ IsVerdict(last.log[k + 1])
                   /\ <<last.log[k + 1][2], last.log[k + 1][3]>>
                         = SearchPair(last.log[k])
                   /\ SearchPair(last.log[k])[1] \in Objects(entities)
                   /\ SearchPair(last.log[k])[2] \in Objects(entities)
        /\ \A k \in DOMAIN last.log :
               IsVerdict(last.log[k]) =>
                   /\ k > 1
                   /\ IsSearch(last.log[k - 1])
        /\ (Queried /\ Missing(last.args) # {}) => last.log = <<>>
        /\ (Queried /\ Missing(last.args) = {}) =>
               Len(SelectSeq(last.log, IsVerdict)) = Len(last.calls)

\* a query of several pairs, some searched and some read from the cache,
\* after an earlier call in the session
C17_Witness ==
    /\ Queried
    /\ nreq = 2
    /\ Len(last.calls) >= 2
    /\ \E k \in DOMAIN last.log : last.log[k][1] = "FoundPaths"
    /\ \E k \in DOMAIN last.log : last.log[k][1] = "CachedPaths"

\* C18: on an acyclic store a check_membership(m, t) made after an earlier
\* one of the same pair returns the path list the earlier one cached and
\* leaves graph, predecessors and paths as they were; a _query_membership
\* all of whose pairs have been checked before changes none of them either.
C18_RepeatChangesNothing ==
    [][/\ (/\ last'.op = "check_membership"
           /\ nreq' = nreq + 1
           /\ <<last'.args[1], last'.args[2]>> \in DOMAIN paths)
          => /\ last'.err = NoError
             /\ last'.found = paths[<<last'.args[1], last'.args[2]>>]
             /\ graph' = graph
             /\ predecessors' = predecessors
             /\ paths' = paths
       /\ (/\ last'.op = "query_membership"
           /\ nreq' = nreq + 1
           /\ Missing(last'.args) = {}
           /\ Range(CrossProduct(last'.args[1], last'.args[2]))
                 \subseteq DOMAIN paths)
          => /\ last'.err = NoError
             /\ graph' = graph
             /\ predecessors' = predecessors
             /\ paths' = paths]_vars

\* a second check_membership of a pair joined by two paths or more
C18_Witness ==
    /\ Checked
    /\ nreq = 2
    /\ Len(last.found) >= 2
    /\ last.log[Len(last.log) - 1]
          = <<"CachedPaths", last.args[1], last.args[2]>>

\* C19: build_graph changes graph and predecessors only, never the path
\* cache or the store; the _construct_path(target, member) that follows it
\* in check_membership changes at most the cache entry of (member, target)
\* and leaves graph and predecessors as build_graph(member) left them, and
\* the store and every other cache entry as they were.
C19_Frame ==
    [][/\ (last'.op = "build_graph" /\ nreq' = nreq + 1)
          => /\ paths' = paths
             /\ nsearch' = nsearch
             /\ store' = store
       /\ (last'.op = "check_membership" /\ nreq' = nreq + 1)
          => /\ \A k \in DOMAIN paths :
                    k \in DOMAIN paths' /\ paths'[k] = paths[k]
             /\ DOMAIN paths' \subseteq
                   DOMAIN paths \cup {<<last'.args[1], last'.args[2]>>}
             /\ graph' = build_graph(last'.args[1], Session, 1).st.graph
             /\ predecessors'
                   = build_graph(last'.args[1], Session, 1).st.predecessors
             /\ store' = store]_vars

\* a search that added its entry to a path cache holding paths of another
\* pair
C19_Witness ==
    /\ Checked
    /\ nreq = 2
    /\ last.found # <<>>
    /\ nsearch[<<last.args[1], last.args[2]>>] = 1
    /\ \E k \in DOMAIN paths :
           k # <<last.args[1], last.args[2]>> /\ paths[k] # <<>>

\* the check_membership executed statement by statement ends in the state
\* and with the path list of the check_membership operator
StepsAgree ==
    [][(run.pc # "idle" /\ run'.pc = "idle") =>
         \A r \in {check_membership(run.member, run.target, run.start)} :
             /\ graph' = r.st.graph
             /\ predecessors' = r.st.predecessors
             /\ paths' = r.st.paths
             /\ nsearch' = r.st.nsearch
             /\ last'.found = r.ret
             /\ last'.reach = r.built
             /\ last'.err = r.err]_vars

\* C20: on an acyclic store, whatever earlier calls left in the session, a
\* check_membership that has started returns: the walk of build_graph comes
\* back and the queue of _construct_path empties, every partial path put on
\* the queue being one longer than the path it extends and no longer than
\* the number of entities.
C20_CheckTerminates ==
    /\ [](\A p \in Range(run.queue) :
             Len(p) <= Cardinality(Objects(entities)))
    /\ [][(run.pc = "search" /\ run'.pc = "search") =>
            \A k \in DOMAIN run'.queue :
                k >= Len(run.queue) =>
                    Len(run'.queue[k]) = Len(Head(run.queue)) + 1]_vars
    /\ (run.pc # "idle") ~> (run.pc = "idle" /\ last.err = NoError)

\* a search with several partial paths in its queue, in a session that had
\* resolved an entity before
C20_Witness ==
    /\ run.pc = "search"
    /\ nreq = 1
    /\ Len(run.queue) >= 2
    /\ Len(run.queue[Len(run.queue)]) >= 3
    /\ run.found # <<>>

\* C21: on an acyclic store whose member-of lists name no target twice,
\* after any calls of build_graph and check_membership no predecessor list
\* holds an entity twice, and no cached or returned path list holds a path
\* twice.
C21_NoDuplicates ==
    /\ \A y \in DOMAIN predecessors : NoDup(predecessors[y])
    /\ \A k \in DOMAIN paths : NoDup(paths[k])
    /\ NoDup(last.found)

\* a target whose stored set is empty, reached along two routes in one walk
\* and so walked twice, recorded with two predecessors, with two paths
\* returned
C21_Witness ==
    /\ Checked
    /\ nreq = 2
    /\ Len(last.found) >= 2
    /\ \E x \in DOMAIN graph \cap DOMAIN predecessors :
           /\ graph[x] = {}
           /\ Len(predecessors[x]) >= 2
           /\ Cardinality({i \in DOMAIN last.log :
                              last.log[i] = <<"Calculating", x>>}) >= 2

\* C22: on an acyclic store every entry (m, t) of the path cache holds, in
\* every later state of the session, the set of paths that a search for
\* (m, t) run afresh over the predecessor index of that state returns.
C22_CacheCoherent ==
    \A k \in DOMAIN paths :
        \A s \in {construct_path_loop(<<<<k[2]>>>>, <<>>, k[1], predecessors,
                                      MaxSearch)} :
            /\ ~s.endless
            /\ Range(paths[k]) = Range(s.paths)

\* a cached list of two paths or more for a member m, after a later call
\* for another member, not reachable from m, that added itself to the
\* predecessors of an entity on a cached path
C22_Witness ==
    /\ nreq = 2
    /\ last.err = NoError
    /\ \E k \in DOMAIN paths :
           /\ Len(paths[k]) >= 2
           /\ last.args[1] \notin {k[1]} \cup Reachable(k[1])
           /\ \E i \in DOMAIN paths[k] :
                  \E y \in Range(paths[k][i]) \cap DOMAIN predecessors :
                      last.args[1] \in Range(predecessors[y])

\* the lengths of the paths of a list, in the order of the list
Lengths(found) == [i \in DOMAIN found |-> Len(found[i])]

\* C23: on an acyclic store check_membership(m, t) returns, whatever was
\* queried before it in the session and in whatever order, the set of paths
\* it returns in a session that starts with it, with the same lengths at
\* the same places in the list: only the order of paths of equal length
\* depends on the earlier calls.
C23_HistoryIndependent ==
    Checked =>
        \A r \in {check_membership(last.args[1], last.args[2],
                                    FreshSession)} :
            /\ r.err = NoError
            /\ Range(last.found) = Range(r.ret)
            /\ Lengths(last.found) = Lengths(r.ret)
            /\ last.reach = r.built

\* a check_membership that, after an earlier call, returns its two paths of
\* equal length in the other order than in a session that starts with it
C23_Witness ==
    /\ Checked
    /\ nreq = 2
    /\ Len(last.found) >= 2
    /\ last.found # check_membership(last.args[1], last.args[2],
                                     FreshSession).ret

=============================================================================
